---- MODULE Spec2Model ----
(***************************************************************************)
(* A model of CoolCode (src/main.py): the syntax highlighter's per-line    *)
(* scan, the open / save / run handlers of the main window, and the        *)
(* line-number gutter of the editor.                                       *)
(*                                                                         *)
(* Three specifications share the module, one per component:               *)
(*   SpecHL      PythonSyntaxHighlighter.highlightBlock on one line        *)
(*   SpecIO      MainWindow.open_file / save_file / run_code               *)
(*   SpecGutter  CodeEditor / LineNumberArea notifications and repaints    *)
(* Each leaves the other components' variables at their initial values.    *)
(***************************************************************************)
EXTENDS Integers, Sequences, FiniteSets, TLC

VARIABLES
    \* ---- highlighter (one highlightBlock call) ----
    text,       \* the line handed to highlightBlock, a sequence of characters
    ruleIdx,    \* position of the for loop in highlighting_rules (0 = not entered)
    index,      \* the local `index` of highlightBlock (-1: no match / loop left)
    spans,      \* the setFormat calls made so far, in order
    fmt,        \* the block's character formats: offset -> colour
    \* ---- main window: editor buffer, files, output windows ----
    buffer,     \* the editor's document text (toPlainText), a sequence of code points
    fs,         \* the file system: path -> [exists, bytes, src]
    platform,   \* the host: locale encoding and os.linesep of text-mode open()
    running,    \* FALSE once an exception that escaped a slot has ended the process
    windows,    \* the output windows run_code has opened, oldest first
    ioLast,     \* what the handler that ran last did
    \* ---- editor and line-number gutter (heights and offsets in text rows) ----
    blockCount,   \* the document's number of lines (QPlainTextEdit.blockCount)
    firstVisible, \* blockNumber of firstVisibleBlock()
    viewRows,     \* height of the editor's contentsRect / viewport
    gutterRows,   \* height of line_number_area's geometry
    painted,      \* what the gutter shows: row -> number drawn there (0: background)
    dirty,        \* rows of the gutter with an update() pending
    gutLast       \* what the last event did

hlVars == <<text, ruleIdx, index, spans, fmt>>

ioVars == <<buffer, fs, platform, running, windows, ioLast>>

gutVars == <<blockCount, firstVisible, viewRows, gutterRows, painted, dirty, gutLast>>

vars == <<hlVars, ioVars, gutVars>>

(***************************************************************************)
(* Bounds of the model                                                     *)
(***************************************************************************)
MaxTokens == 3

MaxBuf == 2

MaxFileLen == 2

MaxWindows == 2

MaxLines == 4

MaxRows == 3

(***************************************************************************)
(* Small helpers                                                           *)
(***************************************************************************)
SetMax(S) == CHOOSE x \in S : \A y \in S : y <= x

SetMin(S) == CHOOSE x \in S : \A y \in S : x <= y

(***************************************************************************)
(* Characters and character classes of QRegExp                             *)
(***************************************************************************)
\* the letters the keywords and the model's lines are spelled with
Letters == {"a", "b", "c", "d", "e", "f", "h", "i", "k", "l", "m", "n", "o",
            "p", "r", "s", "t", "u", "w", "x", "y"}

IsDigit(c) == c \in {"0", "1", "2", "3", "4", "5", "6", "7", "8", "9"}

IsWord(c) == c \in Letters \/ IsDigit(c) \/ c = "_"

IsSpace(c) == c \in {" ", "\t"}

\* \b at the gap before 0-based offset p: exactly one side is a word character
WordBoundary(t, p) ==
    LET before == p > 0 /\ IsWord(t[p])
        after  == p < Len(t) /\ IsWord(t[p + 1])
    IN  before # after

(***************************************************************************)
(* The rule table built by __init__ through create_rule                    *)
(***************************************************************************)
Keywords ==
    << <<"d","e","f">>, <<"c","l","a","s","s">>, <<"i","m","p","o","r","t">>,
       <<"f","r","o","m">>, <<"a","s">>, <<"r","e","t","u","r","n">>,
       <<"i","f">>, <<"e","l","i","f">>, <<"e","l","s","e">>,
       <<"w","h","i","l","e">>, <<"f","o","r">>, <<"b","r","e","a","k">>,
       <<"c","o","n","t","i","n","u","e">>, <<"t","r","y">>,
       <<"e","x","c","e","p","t">>, <<"f","i","n","a","l","l","y">>,
       <<"r","a","i","s","e">>, <<"w","i","t","h">>,
       <<"l","a","m","b","d","a">>, <<"y","i","e","l","d">> >>

\* create_rule: one (pattern, format) entry per pattern, all with the rule's colour;
\* group is the position of the create_rule call
create_rule(patterns, color, group) ==
    [i \in 1..Len(patterns) |-> [pattern |-> patterns[i], color |-> color, group |-> group]]

highlighting_rules ==
    create_rule([i \in 1..Len(Keywords) |-> [kind |-> "literal", lit |-> Keywords[i]]],
                "blue", 1)
    \o create_rule(<< [kind |-> "comment"] >>, "green", 2)
    \o create_rule(<< [kind |-> "quoted", q |-> "\""], [kind |-> "quoted", q |-> "'"] >>,
                   "red", 3)
    \o create_rule(<< [kind |-> "number"] >>, "orange", 4)
    \o create_rule(<< [kind |-> "named", lit |-> <<"d","e","f">>],
                      [kind |-> "named", lit |-> <<"c","l","a","s","s">>] >>, "cyan", 5)

NumRules == Len(highlighting_rules)

(***************************************************************************)
(* QRegExp matching of the patterns the rule table uses                    *)
(***************************************************************************)
\* t[i+1 .. i+Len(lit)] = lit  (i is a 0-based offset)
LitAt(lit, t, i) ==
    /\ i + Len(lit) <= Len(t)
    /\ \A k \in 1..Len(lit) : t[i + k] = lit[k]

\* pattern p matches exactly the n characters of t from 0-based offset i
MatchesAt(p, t, i, n) ==
    /\ n >= 1
    /\ i + n <= Len(t)
    /\ CASE p.kind = "literal" ->                         \* def, class, ...
              n = Len(p.lit) /\ LitAt(p.lit, t, i)
         [] p.kind = "comment" ->                         \* #.*
              t[i + 1] = "#"
         [] p.kind = "quoted" ->                          \* "[^"]*"  '[^']*'
              /\ n >= 2
              /\ t[i + 1] = p.q
              /\ t[i + n] = p.q
              /\ \A k \in 2..(n - 1) : t[i + k] # p.q
         [] p.kind = "number" ->                          \* \b\d+(\.\d*)?\b
              /\ WordBoundary(t, i)
              /\ WordBoundary(t, i + n)
              /\ \E d \in 1..n :
                    /\ \A k \in 1..d : IsDigit(t[i + k])
                    /\ \/ d = n
                       \/ /\ t[i + d + 1] = "."
                          /\ \A k \in (d + 2)..n : IsDigit(t[i + k])
         [] p.kind = "named" ->                           \* \bdef\s+\w+  \bclass\s+\w+
              /\ WordBoundary(t, i)
              /\ LitAt(p.lit, t, i)
              /\ \E s \in 1..(n - Len(p.lit) - 1) :
                    /\ \A k \in 1..s : IsSpace(t[i + Len(p.lit) + k])
                    /\ \A k \in (Len(p.lit) + s + 1)..n : IsWord(t[i + k])

\* QRegExp.matchedLength() after a match at offset i: greedy quantifiers take
\* the longest match that starts there; -1 when nothing matches at i
matchedLength(p, t, i) ==
    LET ns == {n \in 1..(Len(t) - i) : MatchesAt(p, t, i, n)}
    IN  IF ns = {} THEN -1 ELSE SetMax(ns)

\* QRegExp.indexIn(text, offset): the first offset >= from where p matches, or -1
indexIn(p, t, from) ==
    LET is == {i \in from..(Len(t) - 1) : matchedLength(p, t, i) >= 1}
    IN  IF is = {} THEN -1 ELSE SetMin(is)

(***************************************************************************)
(* highlightBlock                                                          *)
(***************************************************************************)
NoFormat == "none"

\* a setFormat that leaves already formatted characters alone (first rule wins)
setFormatKeepFirst(f, start, count, color) ==
    [o \in DOMAIN f |->
        IF start <= o /\ o < start + count /\ f[o] = "none" THEN color ELSE f[o]]

\* QSyntaxHighlighter.setFormat(start, count, format) on the block's formats
setFormat(f, start, count, color) ==
    [o \in DOMAIN f |-> IF start <= o /\ o < start + count THEN color ELSE f[o]]

\* a search that resumes one character after the match's start
NextSearchFromStart(i, length) == i + 1

\* the offset the search resumes from after a match (line 43)
NextSearchFrom(i, length) == i + length

\* for pattern, format in self.highlighting_rules: expression.indexIn(text)
ForStep ==
    /\ index < 0
    /\ ruleIdx < NumRules
    /\ ruleIdx' = ruleIdx + 1
    /\ index' = indexIn(highlighting_rules[ruleIdx + 1].pattern, text, 0)
    /\ UNCHANGED <<text, spans, fmt>>
    /\ UNCHANGED <<ioVars, gutVars>>

\* while index >= 0: one pass through the loop body (lines 41-43)
WhileStep ==
    /\ index >= 0
    /\ LET rule   == highlighting_rules[ruleIdx]
           length == matchedLength(rule.pattern, text, index)
       IN  /\ fmt' = setFormat(fmt, index, length, rule.color)
           /\ spans' = Append(spans, [rule |-> ruleIdx, start |-> index, len |-> length])
           /\ index' = indexIn(rule.pattern, text, NextSearchFrom(index, length))
    /\ UNCHANGED <<text, ruleIdx>>
    /\ UNCHANGED <<ioVars, gutVars>>

hlDone == ruleIdx = NumRules /\ index < 0

(***************************************************************************)
(* Lines handed to the highlighter: up to MaxTokens tokens                 *)
(***************************************************************************)
Tokens == { <<"d","e","f">>, <<"c","l","a","s","s">>, <<"a","s">>, <<"x">>,
            <<" ">>, <<"#">>, <<"\"", "x", "\"">>, <<"\"", "#", "\"">>,
            <<"\"">>, <<"'">>, <<"1">>, <<".">> }

RECURSIVE LinesOf(_)
LinesOf(n) ==
    IF n = 0 THEN {<<>>}
    ELSE LET L == LinesOf(n - 1) IN L \cup {l \o tk : l \in L, tk \in Tokens}

Lines == LinesOf(MaxTokens)

HLIdle ==
    /\ text = <<>>
    /\ ruleIdx = 0
    /\ index = -1
    /\ spans = <<>>
    /\ fmt = <<>>

(***************************************************************************)
(* Text codecs used by open() in text mode                                 *)
(***************************************************************************)
RECURSIVE Flatten(_)
Flatten(ss) == IF ss = <<>> THEN <<>> ELSE Head(ss) \o Flatten(Tail(ss))

\* the codec "utf-8", one code point
Utf8EncodeChar(cp) ==
    IF cp < 128 THEN << cp >>
    ELSE IF cp < 2048 THEN << 192 + (cp \div 64), 128 + (cp % 64) >>
    ELSE IF cp < 65536
         THEN << 224 + (cp \div 4096), 128 + ((cp \div 64) % 64), 128 + (cp % 64) >>
    ELSE << 240 + (cp \div 262144), 128 + ((cp \div 4096) % 64),
            128 + ((cp \div 64) % 64), 128 + (cp % 64) >>

\* surrogates cannot be encoded
Utf8CanEncode(cp) == cp \in 0..1114111 /\ cp \notin 55296..57343

\* the codec "cp1252": the code points with a byte of their own above 127
Cp1252High ==
    << 8364, 0, 8218, 402, 8222, 8230, 8224, 8225, 710, 8240, 352, 8249, 338, 0, 381, 0,
       0, 8216, 8217, 8220, 8221, 8226, 8211, 8212, 732, 8482, 353, 8250, 339, 0, 382, 376 >>

Cp1252CanEncode(cp) ==
    \/ cp \in 0..127
    \/ cp \in 160..255
    \/ \E k \in 1..Len(Cp1252High) : Cp1252High[k] = cp /\ cp # 0

Cp1252EncodeChar(cp) ==
    IF cp \in 0..127 \/ cp \in 160..255 THEN << cp >>
    ELSE << 127 + (CHOOSE k \in 1..Len(Cp1252High) : Cp1252High[k] = cp) >>

CanEncode(enc, t) ==
    \A k \in 1..Len(t) :
        IF enc = "utf-8" THEN Utf8CanEncode(t[k]) ELSE Cp1252CanEncode(t[k])

Encode(enc, t) ==
    Flatten([k \in 1..Len(t) |->
        IF enc = "utf-8" THEN Utf8EncodeChar(t[k]) ELSE Cp1252EncodeChar(t[k])])

IsCont(b) == b \in 128..191

\* strict UTF-8: the length of the sequence a lead byte announces (0: not a lead)
Utf8SeqLen(lead) ==
    IF lead < 128 THEN 1
    ELSE IF lead \in 194..223 THEN 2
    ELSE IF lead \in 224..239 THEN 3
    ELSE IF lead \in 240..244 THEN 4
    ELSE 0

Utf8CodePoint(b, i, n) ==
    IF n = 1 THEN b[i]
    ELSE IF n = 2 THEN (b[i] - 192) * 64 + (b[i + 1] - 128)
    ELSE IF n = 3 THEN (b[i] - 224) * 4096 + (b[i + 1] - 128) * 64 + (b[i + 2] - 128)
    ELSE (b[i] - 240) * 262144 + (b[i + 1] - 128) * 4096
         + (b[i + 2] - 128) * 64 + (b[i + 3] - 128)

\* a well-formed sequence of n bytes starts at b[i]: continuation bytes follow,
\* the code point is not overlong, not a surrogate and not above U+10FFFF
Utf8ValidAt(b, i, n) ==
    /\ n >= 1
    /\ i + n - 1 <= Len(b)
    /\ \A k \in 1..(n - 1) : IsCont(b[i + k])
    /\ LET cp == Utf8CodePoint(b, i, n)
       IN  /\ n = 3 => (cp >= 2048 /\ cp \notin 55296..57343)
           /\ n = 4 => (cp >= 65536 /\ cp <= 1114111)

RECURSIVE Utf8DecodeFrom(_, _)
Utf8DecodeFrom(b, i) ==
    IF i > Len(b) THEN [ok |-> TRUE, text |-> <<>>]
    ELSE LET n == Utf8SeqLen(b[i])
         IN  IF ~Utf8ValidAt(b, i, n) THEN [ok |-> FALSE, text |-> <<>>]
             ELSE LET rest == Utf8DecodeFrom(b, i + n)
                  IN  [ok |-> rest.ok,
                       text |-> << Utf8CodePoint(b, i, n) >> \o rest.text]

\* bytes.decode('utf-8'): ok = FALSE stands for UnicodeDecodeError
Utf8Decode(b) == Utf8DecodeFrom(b, 1)

\* bytes.decode('latin-1'): byte k is code point k, never an error
Latin1Decode(b) == [ok |-> TRUE, text |-> [k \in 1..Len(b) |-> b[k]]]

CR == 13

LF == 10

\* reading with newline=None: "\r\n" and "\r" become "\n"
RECURSIVE UniversalNewlines(_)
UniversalNewlines(t) ==
    IF t = <<>> THEN <<>>
    ELSE IF Head(t) = CR
         THEN IF Len(t) >= 2 /\ t[2] = LF
              THEN << LF >> \o UniversalNewlines(Tail(Tail(t)))
              ELSE << LF >> \o UniversalNewlines(Tail(t))
         ELSE << Head(t) >> \o UniversalNewlines(Tail(t))

\* writing with newline=None: "\n" becomes os.linesep
WriteNewlines(t, linesep) ==
    Flatten([k \in 1..Len(t) |-> IF t[k] = LF THEN linesep ELSE << t[k] >>])

\* open(path, 'r', encoding=enc).read() on a file holding bytes b
ReadText(enc, b) ==
    LET d == IF enc = "utf-8" THEN Utf8Decode(b) ELSE Latin1Decode(b)
    IN  [ok |-> d.ok, text |-> UniversalNewlines(d.text)]

\* open(path, 'w', encoding=enc).write(t): the bytes that reach the file
WriteBytes(enc, linesep, t) == Encode(enc, WriteNewlines(t, linesep))

(***************************************************************************)
(* MainWindow: open_file, save_file, run_code                              *)
(***************************************************************************)
Paths == {"a.py"}

Cancelled == ""

\* what typing can put into the document: "\n", "A", e-acute, A-macron, euro sign
BufChars == {10, 65, 233, 256, 8364}

\* bytes of files that exist before the editor starts
ExtBytes == {10, 13, 65, 169, 195, 233}

\* interpreter output as the subprocess module captures it
Outputs == {"hi\n", "Traceback (most recent call last): ..."}

RECURSIVE SeqsUpTo(_, _)
SeqsUpTo(S, n) ==
    IF n = 0 THEN {<<>>}
    ELSE LET T == SeqsUpTo(S, n - 1) IN T \cup {Append(t, x) : t \in T, x \in S}

NoSrc == << -1 >>

NoFile == [exists |-> FALSE, bytes |-> <<>>, src |-> NoSrc]

\* a file: src is the text a save_file wrote it from (NoSrc: not written by the editor)
File(b, s) == [exists |-> TRUE, bytes |-> b, src |-> s]

Did(op, path, outcome, failure, fallbacks) ==
    [op |-> op, path |-> path, outcome |-> outcome, failure |-> failure,
     fallbacks |-> fallbacks, exit |-> 0, out |-> ""]

\* an exception leaves the slot: PyQt prints the traceback and, depending on its
\* version and the installed excepthook, aborts the process or carries on
Escapes == running' \in BOOLEAN

\* the codec of the first read attempt (line 195)
PrimaryEncoding == "utf-8"

\* a retry under the codec that has just failed
FallbackEncodingSame == "utf-8"

\* the codec of the retry after UnicodeDecodeError (line 199)
FallbackEncoding == "latin-1"

\* open_file with the dialog's answer; io1 / io2: whether the first / second
\* open() and read() get through to the file's bytes (no OSError)
open_file(file_name, io1, io2) ==
    /\ running
    /\ UNCHANGED <<fs, platform, windows>>
    /\ IF file_name = Cancelled
       THEN /\ ioLast' = Did("open", file_name, "cancelled", "none", 0)
            /\ UNCHANGED <<buffer, running>>
       ELSE IF ~(fs[file_name].exists /\ io1)
       THEN \* OSError from line 195: no handler matches
            /\ ioLast' = Did("open", file_name, "escaped", "oserror", 0)
            /\ Escapes
            /\ UNCHANGED buffer
       ELSE LET first == ReadText(PrimaryEncoding, fs[file_name].bytes)
            IN  IF first.ok
                THEN /\ buffer' = first.text
                     /\ ioLast' = Did("open", file_name, "ok", "none", 0)
                     /\ UNCHANGED running
                ELSE \* except UnicodeDecodeError
                     IF ~(fs[file_name].exists /\ io2)
                     THEN \* except Exception as e: print
                          /\ ioLast' = Did("open", file_name, "reported", "oserror", 1)
                          /\ UNCHANGED <<buffer, running>>
                     ELSE LET second == ReadText(FallbackEncoding, fs[file_name].bytes)
                          IN  IF second.ok
                              THEN /\ buffer' = second.text
                                   /\ ioLast' = Did("open", file_name, "ok", "none", 1)
                                   /\ UNCHANGED running
                              ELSE /\ ioLast' = Did("open", file_name, "reported", "decode", 1)
                                   /\ UNCHANGED <<buffer, running>>

\* the encoding save_file's open(file_name, 'w') writes under: none is given,
\* so it is the locale's
SaveEncoding == platform.encoding

\* save_file with the dialog's answer; io: whether open(file_name, 'w') succeeds
save_file(file_name, io) ==
    /\ running
    /\ UNCHANGED <<buffer, platform, windows>>
    /\ IF file_name = Cancelled
       THEN /\ ioLast' = Did("save", file_name, "cancelled", "none", 0)
            /\ UNCHANGED <<fs, running>>
       ELSE IF ~io
       THEN /\ ioLast' = Did("save", file_name, "escaped", "oserror", 0)
            /\ Escapes
            /\ UNCHANGED fs
       ELSE IF ~CanEncode(SaveEncoding, WriteNewlines(buffer, platform.linesep))
       THEN \* UnicodeEncodeError from write(): the file is already truncated
            /\ fs' = [fs EXCEPT ![file_name] = File(<<>>, NoSrc)]
            /\ ioLast' = Did("save", file_name, "escaped", "encode", 0)
            /\ Escapes
       ELSE /\ fs' = [fs EXCEPT ![file_name] =
                         File(WriteBytes(SaveEncoding, platform.linesep, buffer), buffer)]
            /\ ioLast' = Did("save", file_name, "ok", "none", 0)
            /\ UNCHANGED running

\* an exception that carries no output
CalledProcessErrorNoOutput(captured) == ""

\* e.output of the CalledProcessError check_output raises on a non-zero exit
CalledProcessErrorOutput(captured) == captured

\* output as run_code binds it: check_output's return value, or e.output
RunOutput(exit, captured) ==
    IF exit = 0 THEN captured ELSE CalledProcessErrorOutput(captured)

\* run_code; started: the interpreter process could be spawned; exit, captured:
\* its exit code and its combined stdout + stderr
run_code(started, exit, captured) ==
    /\ running
    /\ Len(windows) < MaxWindows
    /\ UNCHANGED <<buffer, fs, platform>>
    /\ IF ~started
       THEN \* FileNotFoundError / ValueError from check_output: not caught
            /\ ioLast' = Did("run", Cancelled, "escaped", "spawn", 0)
            /\ Escapes
            /\ UNCHANGED windows
       ELSE /\ windows' = Append(windows, [text |-> RunOutput(exit, captured),
                                            readOnly |-> TRUE])
            /\ ioLast' = [Did("run", Cancelled, "ok", "none", 0)
                             EXCEPT !.exit = exit, !.out = captured]
            /\ UNCHANGED running

\* the user edits the document: types a character at the end or deletes the last
TypeChar(c) ==
    /\ running
    /\ Len(buffer) < MaxBuf
    /\ buffer' = Append(buffer, c)
    /\ ioLast' = Did("edit", Cancelled, "ok", "none", 0)
    /\ UNCHANGED <<fs, platform, running, windows>>

Backspace ==
    /\ running
    /\ buffer # <<>>
    /\ buffer' = SubSeq(buffer, 1, Len(buffer) - 1)
    /\ ioLast' = Did("edit", Cancelled, "ok", "none", 0)
    /\ UNCHANGED <<fs, platform, running, windows>>

Platforms == { [encoding |-> "utf-8", linesep |-> << LF >>],
               [encoding |-> "cp1252", linesep |-> << CR, LF >>] }

IOIdle ==
    /\ buffer = <<>>
    /\ fs = [p \in Paths |-> NoFile]
    /\ platform = [encoding |-> "utf-8", linesep |-> << LF >>]
    /\ running = TRUE
    /\ windows = <<>>
    /\ ioLast = Did("none", Cancelled, "ok", "none", 0)

InitIO ==
    /\ buffer = <<>>
    /\ fs \in [Paths -> {NoFile} \cup {File(b, NoSrc) : b \in SeqsUpTo(ExtBytes, MaxFileLen)}]
    /\ platform \in Platforms
    /\ running = TRUE
    /\ windows = <<>>
    /\ ioLast = Did("none", Cancelled, "ok", "none", 0)

OpenAction ==
    /\ \E f \in Paths \cup {Cancelled}, io1, io2 \in BOOLEAN : open_file(f, io1, io2)
    /\ UNCHANGED <<hlVars, gutVars>>

SaveAction ==
    /\ \E f \in Paths \cup {Cancelled}, io \in BOOLEAN : save_file(f, io)
    /\ UNCHANGED <<hlVars, gutVars>>

RunAction ==
    /\ \E started \in BOOLEAN, exit \in {0, 1}, captured \in Outputs :
          run_code(started, exit, captured)
    /\ UNCHANGED <<hlVars, gutVars>>

TypeAction ==
    /\ \E c \in BufChars : TypeChar(c)
    /\ UNCHANGED <<hlVars, gutVars>>

BackspaceAction ==
    /\ Backspace
    /\ UNCHANGED <<hlVars, gutVars>>

(***************************************************************************)
(* CodeEditor and LineNumberArea                                           *)
(***************************************************************************)
\* slot arguments as PyQt delivers them
NoneArg == [type |-> "None", y |-> 0, h |-> 0]

IntArg(n) == [type |-> "int", y |-> n, h |-> 0]

QRectArg(y, h) == [type |-> "QRect", y |-> y, h |-> h]

\* the rows a rectangle with top y and height h covers
RowsOf(y, h) == (y + 1)..(y + h)

Min(a, b) == IF a <= b THEN a ELSE b

\* update_line_number_area(rect): crHeight is contentsRect().height(); the
\* result is the gutter's geometry, its pending update region, and whether
\* line_number_area.update was called
update_line_number_area(rect, crHeight, gRows, gDirty) ==
    IF rect.type = "None"
    THEN [rows |-> crHeight, dirty |-> 1..crHeight, redraw |-> TRUE]
    ELSE IF rect.type \in {"QRect", "QRectF"}
    THEN [rows |-> gRows,
          dirty |-> gDirty \cup (RowsOf(rect.y, rect.h) \cap 1..gRows),
          redraw |-> TRUE]
    ELSE [rows |-> gRows, dirty |-> gDirty, redraw |-> FALSE]

\* a handler that drops every request
handle_update_request_dropped(rect, crHeight, gRows, gDirty) ==
    [rows |-> gRows, dirty |-> gDirty, redraw |-> FALSE]

\* handle_update_request(rect)
handle_update_request(rect, crHeight, gRows, gDirty) ==
    IF rect.type \in {"QRect", "QRectF"}
    THEN update_line_number_area(rect, crHeight, gRows, gDirty)
    ELSE [rows |-> gRows, dirty |-> gDirty, redraw |-> FALSE]

\* block_number = block.blockNumber() + 1
BlockLabel(block) == block + 1

\* paintEvent(event) for an update region of rows R: the background fill, then
\* the walk from firstVisibleBlock() to the document's end, drawing the blocks
\* whose rectangle meets the region; Qt clips all drawing to the region
paintEvent(R) ==
    LET drawn == {b \in firstVisible..(blockCount - 1) : (b - firstVisible + 1) \in R}
    IN  [r \in 1..MaxRows |->
            IF r \notin R THEN painted[r]
            ELSE IF \E b \in drawn : b - firstVisible + 1 = r
                 THEN BlockLabel(firstVisible + r - 1)
                 ELSE 0]

\* the largest scroll position: the last line is never scrolled above the bottom
MaxFirst(bc, vr) == IF bc > vr THEN bc - vr ELSE 0

VisibleBlocks == firstVisible..Min(blockCount - 1, firstVisible + viewRows - 1)

GutDid(event, countChanged, bccRedraw) ==
    [event |-> event, countChanged |-> countChanged, bccRedraw |-> bccRedraw]

\* the document gets newCount lines and the view scrolls to newFirst: Qt emits
\* blockCountChanged(newCount), wired to update_line_number_area (line 83),
\* then updateRequest(rect, dy), wired to handle_update_request (line 84)
ChangeLines(event, newCount, newFirst, rect) ==
    LET a == update_line_number_area(IntArg(newCount), viewRows, gutterRows, dirty)
        b == handle_update_request(rect, viewRows, a.rows, a.dirty)
    IN  /\ blockCount' = newCount
        /\ firstVisible' = newFirst
        /\ gutterRows' = b.rows
        /\ dirty' = b.dirty
        /\ gutLast' = GutDid(event, TRUE, a.redraw)
        /\ UNCHANGED <<viewRows, painted>>

\* k line breaks typed or pasted into visible block `at`; the cursor ends k
\* lines lower and the view scrolls to keep it visible. The viewport area Qt
\* reports reaches from some row at or above the edit to the bottom
InsertLines ==
    \E k \in 1..2, at \in VisibleBlocks :
        /\ blockCount + k <= MaxLines
        /\ LET cursor == at + k
               newFirst == IF cursor > firstVisible + viewRows - 1
                           THEN cursor - viewRows + 1 ELSE firstVisible
           IN  \E y \in 0..(at - firstVisible) :
                  /\ newFirst # firstVisible => y = 0
                  /\ ChangeLines("insert", blockCount + k, newFirst,
                                 QRectArg(y, viewRows - y))
        /\ UNCHANGED <<hlVars, ioVars>>

\* k line breaks deleted after visible block `at`
DeleteLines ==
    \E k \in 1..2, at \in VisibleBlocks :
        /\ at + k <= blockCount - 1
        /\ LET newFirst == Min(firstVisible, MaxFirst(blockCount - k, viewRows))
           IN  \E y \in 0..(at - firstVisible) :
                  /\ newFirst # firstVisible => y = 0
                  /\ ChangeLines("delete", blockCount - k, newFirst,
                                 QRectArg(y, viewRows - y))
        /\ UNCHANGED <<hlVars, ioVars>>

\* an edit inside visible block `at`: updateRequest with that line's rectangle
EditInLine ==
    \E at \in VisibleBlocks :
        LET b == handle_update_request(QRectArg(at - firstVisible, 1),
                                       viewRows, gutterRows, dirty)
        IN  /\ gutterRows' = b.rows
            /\ dirty' = b.dirty
            /\ gutLast' = GutDid("edit", FALSE, FALSE)
            /\ UNCHANGED <<blockCount, firstVisible, viewRows, painted>>
            /\ UNCHANGED <<hlVars, ioVars>>

\* the user scrolls: updateRequest(viewport rect, dy)
Scroll ==
    \E newFirst \in 0..MaxFirst(blockCount, viewRows) :
        /\ newFirst # firstVisible
        /\ LET b == handle_update_request(QRectArg(0, viewRows),
                                          viewRows, gutterRows, dirty)
           IN  /\ gutterRows' = b.rows
               /\ dirty' = b.dirty
        /\ firstVisible' = newFirst
        /\ gutLast' = GutDid("scroll", FALSE, FALSE)
        /\ UNCHANGED <<blockCount, viewRows, painted>>
        /\ UNCHANGED <<hlVars, ioVars>>

\* resizeEvent(event): the base class resizes the viewport (and scrolls back if
\* the new height shows past the end), then update_line_number_area()
resizeEvent ==
    \E newRows \in 1..MaxRows :
        /\ newRows # viewRows
        /\ LET a == update_line_number_area(NoneArg, newRows, gutterRows, dirty)
           IN  /\ gutterRows' = a.rows
               /\ dirty' = a.dirty
               /\ painted' = [r \in 1..MaxRows |-> IF r <= a.rows THEN painted[r] ELSE 0]
        /\ viewRows' = newRows
        /\ firstVisible' = Min(firstVisible, MaxFirst(blockCount, newRows))
        /\ gutLast' = GutDid("resize", FALSE, FALSE)
        /\ UNCHANGED blockCount
        /\ UNCHANGED <<hlVars, ioVars>>

\* the event loop delivers the pending paint event to the gutter
Paint ==
    /\ dirty # {}
    /\ painted' = paintEvent(dirty)
    /\ dirty' = {}
    /\ gutLast' = GutDid("paint", FALSE, FALSE)
    /\ UNCHANGED <<blockCount, firstVisible, viewRows, gutterRows>>
    /\ UNCHANGED <<hlVars, ioVars>>

GutIdle ==
    /\ blockCount = 1
    /\ firstVisible = 0
    /\ viewRows = 1
    /\ gutterRows = 1
    /\ painted = [r \in 1..MaxRows |-> 0]
    /\ dirty = {}
    /\ gutLast = GutDid("none", FALSE, FALSE)

(***************************************************************************)
(* Specifications                                                          *)
(***************************************************************************)
InitHL ==
    /\ IOIdle /\ GutIdle
    /\ text \in Lines
    /\ ruleIdx = 0
    /\ index = -1
    /\ spans = <<>>
    /\ fmt = [o \in 0..(Len(text) - 1) |-> NoFormat]

NextHL == ForStep \/ WhileStep

SpecHL == InitHL /\ [][NextHL]_vars

\* highlightBlock runs to completion once called: nothing preempts the GUI thread
FairSpecHL == SpecHL /\ WF_vars(NextHL)

InitFiles == InitIO /\ HLIdle /\ GutIdle

NextIO == OpenAction \/ SaveAction \/ TypeAction \/ BackspaceAction

SpecIO == InitFiles /\ [][NextIO]_vars

InitRun == IOIdle /\ HLIdle /\ GutIdle

NextRun == RunAction \/ TypeAction \/ BackspaceAction

SpecRun == InitRun /\ [][NextRun]_vars

\* the window has been shown: the first resizeEvent has sized the gutter to the
\* viewport and asked for its first paint; the new document has one empty line
InitGutter ==
    /\ IOIdle /\ HLIdle
    /\ blockCount = 1
    /\ firstVisible = 0
    /\ viewRows \in 1..MaxRows
    /\ gutterRows = viewRows
    /\ painted = [r \in 1..MaxRows |-> 0]
    /\ dirty = 1..viewRows
    /\ gutLast = GutDid("resize", FALSE, FALSE)

NextGutter == InsertLines \/ DeleteLines \/ EditInLine \/ Scroll \/ resizeEvent \/ Paint

SpecGutter == InitGutter /\ [][NextGutter]_vars

(***************************************************************************)
(* Highlighter claims                                                      *)
(***************************************************************************)
Covers(s, o) == s.start <= o /\ o < s.start + s.len

GroupOf(s) == highlighting_rules[s.rule].group

GroupColor(g) ==
    (CHOOSE r \in {highlighting_rules[k] : k \in 1..NumRules} : r.group = g).color

SpanSet(g) == {<<spans[k].start, spans[k].len>> : k \in {j \in 1..Len(spans) : GroupOf(spans[j]) = g}}

\* C7: once highlightBlock has returned, every character has the colour of the
\* last-registered rule (keywords < comments < strings < numbers < def/class
\* names) one of whose matches covers it, and no format if no match covers it.
C7_LastRuleWins ==
    hlDone =>
        \A o \in DOMAIN fmt :
            LET gs == {GroupOf(spans[k]) : k \in {j \in 1..Len(spans) : Covers(spans[j], o)}}
            IN  fmt[o] = IF gs = {} THEN NoFormat ELSE GroupColor(SetMax(gs))

\* a character that two rules of different colours both matched
C7_Witness ==
    /\ hlDone
    /\ \E o \in DOMAIN fmt : \E j, k \in 1..Len(spans) :
          /\ Covers(spans[j], o) /\ Covers(spans[k], o)
          /\ GroupOf(spans[j]) < GroupOf(spans[k])

\* the keyword tokens of a line: maximal runs of word characters that spell a keyword
KeywordTokens(t) ==
    {<<i, n>> \in (0..Len(t)) \X (1..Len(t)) :
        /\ i + n <= Len(t)
        /\ \A k \in 1..n : IsWord(t[i + k])
        /\ (i = 0 \/ ~IsWord(t[i]))
        /\ (i + n = Len(t) \/ ~IsWord(t[i + n + 1]))
        /\ \E w \in 1..Len(Keywords) : Len(Keywords[w]) = n /\ LitAt(Keywords[w], t, i)}

KeywordSpanCount == Cardinality({k \in 1..Len(spans) : GroupOf(spans[k]) = 1})

\* C8: the keyword rule produces exactly one span per keyword token of the
\* line, each bounding a whole token, and nothing else (no span for a keyword
\* spelled inside a longer identifier or inside another keyword).
C8_KeywordSpansAreTokens ==
    hlDone =>
        /\ SpanSet(1) = KeywordTokens(text)
        /\ KeywordSpanCount = Cardinality(KeywordTokens(text))

\* the line is a quoted literal at offset 0 closed at offset q-1, then blanks,
\* then a '#' at offset h that starts the comment
LiteralThenComment(t, q, h) ==
    /\ 2 <= q /\ q <= h /\ h < Len(t)
    /\ t[1] \in {"\"", "'"}
    /\ t[q] = t[1]
    /\ \A k \in 2..(q - 1) : t[k] # t[1]
    /\ \A k \in (q + 1)..h : IsSpace(t[k])
    /\ t[h + 1] = "#"

\* C9: on a line that is a quoted string literal followed by a '#' comment,
\* the string rule produces one span, exactly the literal, the comment rule one
\* span from the '#' to the end of the line, and every character ends with
\* the colour of its own rule.
C9_StringThenComment ==
    hlDone =>
        \A q \in 1..Len(text), h \in 1..Len(text) :
            LiteralThenComment(text, q, h) =>
                /\ SpanSet(3) = {<<0, q>>}
                /\ SpanSet(2) = {<<h, Len(text) - h>>}
                /\ \A o \in 0..(q - 1) : fmt[o] = "red"
                /\ \A o \in h..(Len(text) - 1) : fmt[o] = "green"

SpansAdvance ==
    /\ \A k \in 1..Len(spans) : spans[k].len >= 1
    /\ \A j, k \in 1..Len(spans) :
          (j < k /\ spans[j].rule = spans[k].rule)
              => spans[j].start + spans[j].len <= spans[k].start

\* C10: the match loop terminates for every line and rule: every match is at
\* least one character long, each pass through the loop moves the search index
\* strictly forward (or ends the loop), so the spans one rule produces are in
\* strictly increasing, non-overlapping order, and highlightBlock returns.
C10_ScanTerminates ==
    /\ []SpansAdvance
    /\ [][(index >= 0 /\ ruleIdx' = ruleIdx) => (index' < 0 \/ index' > index)]_vars
    /\ <>hlDone

\* a rule whose loop body ran at least twice on the line
C10_Witness ==
    /\ hlDone
    /\ \E j, k \in 1..Len(spans) : j < k /\ spans[j].rule = spans[k].rule

(***************************************************************************)
(* File and runner claims                                                  *)
(***************************************************************************)
\* C1: an open_file that fails for a reason other than the UTF-8 decode
\* failure (the file cannot be opened or read, or the fallback read fails)
\* reports the failure, leaves the buffer as it was, and the error does not
\* leave the handler: the application keeps running.
C1_OpenFailureHandled ==
    [][(ioLast'.op = "open" /\ ioLast'.failure # "none")
          => (ioLast'.outcome = "reported" /\ buffer' = buffer /\ running')]_vars

\* the text open_file is to show for a file's bytes: the UTF-8 decoding, or,
\* when the bytes are not UTF-8, the Latin-1 decoding (code point = byte)
Decoded(b) == IF Utf8Decode(b).ok THEN Utf8Decode(b).text ELSE b

OpenedReadable == ioLast.op = "open" /\ ioLast.path \in Paths /\ ioLast.failure # "oserror"

\* C2 as stated: after open_file of a readable file the buffer is the UTF-8
\* decoding of its bytes with no fallback attempt, or, for bytes that are not
\* UTF-8, the Latin-1 decoding after exactly one fallback attempt.
C2_OpenDecodesExactly ==
    OpenedReadable =>
        LET b == fs[ioLast.path].bytes
        IN  /\ ioLast.outcome = "ok"
            /\ buffer = Decoded(b)
            /\ ioLast.fallbacks = IF Utf8Decode(b).ok THEN 0 ELSE 1

\* C2 as amended: the buffer is that decoding with line endings read the
\* text-mode way, "\r\n" and "\r" as "\n".
C2_OpenDecodesUpToNewlines ==
    OpenedReadable =>
        LET b == fs[ioLast.path].bytes
        IN  /\ ioLast.outcome = "ok"
            /\ buffer = UniversalNewlines(Decoded(b))
            /\ ioLast.fallbacks = IF Utf8Decode(b).ok THEN 0 ELSE 1

\* a file that is not UTF-8 has been opened through the fallback
C2_Witness ==
    /\ OpenedReadable
    /\ ioLast.fallbacks = 1
    /\ ioLast.outcome = "ok"
    /\ 233 \in {buffer[k] : k \in 1..Len(buffer)}

\* C3: after save_file wrote a buffer to a path, open_file of that path leaves
\* the buffer equal to the text that was saved, on every platform.
C3_SaveOpenRoundTrip ==
    (OpenedReadable /\ fs[ioLast.path].src # NoSrc) => buffer = fs[ioLast.path].src

C5_CountChangeRedraws == gutLast.countChanged => gutLast.bccRedraw

\* the number the gutter is to show in row r: blockNumber + 1 of the line there
ExpectedLabel(r) == IF firstVisible + r <= blockCount THEN firstVisible + r ELSE 0

\* C6: once the notification handlers have run and no repaint is pending, the
\* gutter covers the viewport and shows in each row blockNumber + 1 of the
\* document line displayed there, and nothing next to rows past the last line.
C6_GutterTracksDocument ==
    dirty = {} =>
        /\ gutterRows = viewRows
        /\ \A r \in 1..gutterRows : painted[r] = ExpectedLabel(r)

\* a repainted gutter of a scrolled document of several lines
C6_Witness ==
    /\ dirty = {}
    /\ gutLast.event = "paint"
    /\ blockCount >= 3
    /\ firstVisible >= 1
    /\ viewRows >= 2

====
